---- MODULE Spec2Model ----
(***************************************************************************)
(* A model of data.py (geeksambhu/fmdview): the fiscal-year deriver, the   *)
(* cleaner, the on-time metrics and the geo-joiner, each called once by a  *)
(* caller on a table (or column) drawn from a bounded set.                 *)
(*                                                                         *)
(* Representation.                                                         *)
(*  - A pandas Timestamp is its count of hours since 1970-01-01 00:00 (the *)
(*    library counts nanoseconds; the hour is the model's resolution); a   *)
(*    Timedelta is a count of hours.  A nullable scalar is a record        *)
(*    [null, value]: NaT and NaN are the null ones.                        *)
(*  - A DataFrame is [type, index, names, rows]: the index labels, the set *)
(*    of column names, and one record per row.  Frames live in a heap of   *)
(*    objects, so that "the caller's table" and "the table returned" are   *)
(*    references that can be compared.                                     *)
(*  - Floats are exact rationals [num, den] with den > 0.                  *)
(***************************************************************************)
EXTENDS Integers, Sequences, FiniteSets, TLC

VARIABLES op, pc, heap, args, ret, raised, status, stdout

vars == <<op, pc, heap, args, ret, raised, status, stdout>>

(***************************************************************************)
(* Bounds of the model.                                                    *)
(***************************************************************************)
\* longest column handed to get_fiscalyear
MaxLen == 2
\* most rows of a raw work-order table handed to clean_data
MaxRows == 2
\* most rows of a cleaned table handed to ontime
MaxOrders == 3
\* most rows of a table handed to make_map_dframe
MaxMapRows == 2
\* most rows of the building reference sheet
MaxBuildings == 2

(***************************************************************************)
(* Python values.                                                          *)
(***************************************************************************)
PyNone == [kind |-> "None"]

Val(v) == [null |-> FALSE, value |-> v]

NaT == [null |-> TRUE, value |-> 0]

NaN == [null |-> TRUE, value |-> 0]

\* the outcome of evaluating an expression: a value, or an exception raised
Return(v) == [exc |-> "", value |-> v]

Raise(e) == [exc |-> e, value |-> PyNone]

(***************************************************************************)
(* The proleptic Gregorian calendar of pandas Timestamps.                  *)
(***************************************************************************)
HoursPerDay == 24

\* days since 1970-01-01 of the civil date y-m-d
days_from_civil(y, m, d) ==
    LET yy  == IF m <= 2 THEN y - 1 ELSE y
        era == yy \div 400
        yoe == yy - era * 400
        mp  == IF m > 2 THEN m - 3 ELSE m + 9
        doy == (153 * mp + 2) \div 5 + d - 1
        doe == yoe * 365 + yoe \div 4 - yoe \div 100 + doy
    IN  era * 146097 + doe - 719468

\* the civil date [year, month, day] of a count of days since 1970-01-01
civil_from_days(z) ==
    LET zz  == z + 719468
        era == zz \div 146097
        doe == zz - era * 146097
        yoe == (doe - doe \div 1460 + doe \div 36524 - doe \div 146096) \div 365
        doy == doe - (365 * yoe + yoe \div 4 - yoe \div 100)
        mp  == (5 * doy + 2) \div 153
        d   == doy - (153 * mp + 2) \div 5 + 1
        m   == IF mp < 10 THEN mp + 3 ELSE mp - 9
    IN  [year |-> yoe + era * 400 + (IF m <= 2 THEN 1 ELSE 0), month |-> m, day |-> d]

\* Timestamp.year: NaN for NaT
year(date) ==
    IF date.null THEN NaN ELSE Val(civil_from_days(date.value \div HoursPerDay).year)

\* Timestamp.month: NaN for NaT
month(date) ==
    IF date.null THEN NaN ELSE Val(civil_from_days(date.value \div HoursPerDay).month)

DaysInMonth(y, m) ==
    IF m = 12 THEN 31 ELSE days_from_civil(y, m + 1, 1) - days_from_civil(y, m, 1)

\* a date text <<y, m, d, h>> ("y-m-d h:00") names a moment
ValidDateText(s) ==
    /\ s[2] \in 1..12
    /\ s[3] >= 1
    /\ s[3] <= DaysInMonth(s[1], s[2])
    /\ s[4] \in 0..23

\* pd.to_datetime of one cell: None/NaN becomes NaT, a date text is parsed,
\* anything else raises (errors='raise' is the default)
to_datetime_cell(s) ==
    IF s = <<>> THEN Return(NaT)
    ELSE IF ValidDateText(s)
         THEN Return(Val(days_from_civil(s[1], s[2], s[3]) * HoursPerDay + s[4]))
         ELSE Raise("ValueError")

\* pd.to_datetime of a column: raises when any cell does
to_datetime(column) ==
    IF \E i \in 1..Len(column) : to_datetime_cell(column[i]).exc # ""
    THEN Raise("ValueError")
    ELSE Return([i \in 1..Len(column) |-> to_datetime_cell(column[i]).value])

(***************************************************************************)
(* get_fiscalyear                                                          *)
(***************************************************************************)
\* faulty variant: a single Timestamp iterated as a column of one
IterableAnything(column) == TRUE

\* `for date in column`: a Series, an Index or a list can be iterated, a
\* single Timestamp cannot
Iterable(column) == column.kind \in {"Series", "DatetimeIndex", "list"}

\* date.month >= fiscalyear_start: a comparison with NaN is False
MonthGE(date, fiscalyear_start) ==
    /\ ~month(date).null
    /\ month(date).value >= fiscalyear_start

\* faulty variant: the start month itself still counted to the old fiscal year
FiscalYearOfStrict(date, fiscalyear_start) ==
    IF ~month(date).null /\ month(date).value > fiscalyear_start
    THEN Val(year(date).value + 1)
    ELSE year(date)

\* date.year + 1 if date.month >= fiscalyear_start else date.year
FiscalYearOf(date, fiscalyear_start) ==
    IF MonthGE(date, fiscalyear_start)
    THEN Val(year(date).value + 1)
    ELSE year(date)

get_fiscalyear(column, fiscalyear_start) ==
    IF ~Iterable(column)
    THEN Raise("TypeError")
    ELSE Return([i \in 1..Len(column.items) |->
                    FiscalYearOf(column.items[i], fiscalyear_start)])

DefaultFiscalYearStart == 7

(***************************************************************************)
(* Inputs of get_fiscalyear.                                               *)
(***************************************************************************)
\* the middle of each month of 2021, the spec's 2021-05-01, and the last
\* hour of 2020
FYDateTexts ==
    {<<2021, m, 15, 0>> : m \in 1..12} \cup {<<2021, 5, 1, 0>>, <<2020, 12, 31, 23>>}

FYTimestamps == {to_datetime_cell(s).value : s \in FYDateTexts}

\* a Series of up to MaxLen timestamps, or one bare Timestamp
InitFiscalYear ==
    /\ op = "get_fiscalyear"
    /\ pc = "call"
    /\ heap = <<>>
    /\ \E start \in 1..12 :
          \/ \E n \in 0..MaxLen : \E items \in [1..n -> FYTimestamps] :
                args = [column |-> [kind |-> "Series", items |-> items],
                        fiscalyear_start |-> start]
          \/ \E t \in FYTimestamps :
                args = [column |-> [kind |-> "Timestamp", items |-> <<t>>],
                        fiscalyear_start |-> start]
    /\ ret = PyNone
    /\ raised = ""
    /\ status = ""
    /\ stdout = <<>>

CallGetFiscalYear ==
    /\ op = "get_fiscalyear"
    /\ pc = "call"
    /\ LET r == get_fiscalyear(args.column, args.fiscalyear_start)
       IN  /\ raised' = r.exc
           /\ ret' = IF r.exc = "" THEN [kind |-> "list", items |-> r.value] ELSE PyNone
    /\ pc' = "done"
    /\ UNCHANGED <<op, heap, args, status, stdout>>

(***************************************************************************)
(* DataFrames.                                                             *)
(***************************************************************************)
\* a frame of the given rows under the default RangeIndex 0..n-1
DataFrame(names, rows) ==
    [type |-> "DataFrame", index_name |-> "", index |-> [i \in 1..Len(rows) |-> i - 1],
     names |-> names, rows |-> rows]

\* frame[name] as the sequence of its cells
Column(frame, name) == [i \in 1..Len(frame.rows) |-> frame.rows[i][name]]

\* frame[columns]: a new frame of those columns, KeyError when one is missing
SelectColumns(frame, columns) ==
    IF ~(columns \subseteq frame.names)
    THEN Raise("KeyError")
    ELSE Return([frame EXCEPT !.names = columns,
                              !.rows = [i \in 1..Len(frame.rows) |->
                                          [c \in columns |-> frame.rows[i][c]]]])

\* the positions, in order, where the boolean mask is True
RECURSIVE Kept(_, _)
Kept(mask, i) ==
    IF i > Len(mask) THEN <<>>
    ELSE IF mask[i] THEN <<i>> \o Kept(mask, i + 1) ELSE Kept(mask, i + 1)

\* the rows at the given positions, in that order, each with its index label
TakeRows(frame, positions) ==
    [frame EXCEPT !.index = [k \in 1..Len(positions) |-> frame.index[positions[k]]],
                  !.rows  = [k \in 1..Len(positions) |-> frame.rows[positions[k]]]]

\* frame[mask]: a new frame of the rows where mask is True
BooleanIndex(frame, mask) == TakeRows(frame, Kept(mask, 1))

\* frame[name] = values, cell by cell in row order
SetColumn(frame, name, values) ==
    [frame EXCEPT !.names = frame.names \cup {name},
                  !.rows = [i \in 1..Len(frame.rows) |->
                              [c \in frame.names \cup {name} |->
                                 IF c = name THEN values[i] ELSE frame.rows[i][c]]]]

\* frame.set_index(name, inplace=True): the column becomes the index
set_index(frame, name) ==
    [frame EXCEPT !.index_name = name,
                  !.index = Column(frame, name),
                  !.names = frame.names \ {name},
                  !.rows = [i \in 1..Len(frame.rows) |->
                              [c \in frame.names \ {name} |-> frame.rows[i][c]]]]

\* Timestamp - Timestamp: NaT when either is NaT
TimestampSub(a, b) == IF a.null \/ b.null THEN NaT ELSE Val(a.value - b.value)

\* Series - Index: element by element, by position
SeriesSubIndex(series, index) ==
    [i \in 1..Len(series) |-> TimestampSub(series[i], index[i])]

\* ascending order of index labels, NaT last (na_position='last')
IndexLE(a, b) == b.null \/ (~a.null /\ a.value <= b.value)

\* the orders sort_index may leave the rows in: the default quicksort is not
\* stable, so rows with equal labels may come out in any order
SortOrders(index) ==
    {p \in [1..Len(index) -> 1..Len(index)] :
        /\ \A i, j \in 1..Len(index) : i # j => p[i] # p[j]
        /\ \A i, j \in 1..Len(index) : i < j => IndexLE(index[p[i]], index[p[j]])}

\* faulty variant: the index labels sorted, the rows left where they were
sort_index_labels_only(frame, p) ==
    [frame EXCEPT !.index = [k \in 1..Len(p) |-> frame.index[p[k]]]]

\* frame.sort_index(inplace=True), leaving the rows in order p
sort_index(frame, p) == TakeRows(frame, p)

(***************************************************************************)
(* clean_data                                                              *)
(***************************************************************************)
target_columns ==
    {"wo_id", "date_completed", "prob_type", "bl_id", "completed_by",
     "date_requested", "time_completed", "time_start", "time_end"}

TestSentinel == "TEST(DO NOT USE)"

\* faulty variant: the columns selected, the sentinel rows kept
FilterRowsNoMask(dframe) == SelectColumns(dframe, target_columns)

\* dframe[target_columns][(dframe['prob_type'] != 'TEST(DO NOT USE)')]
FilterRows(dframe) ==
    LET selected == SelectColumns(dframe, target_columns)
    IN  IF selected.exc # "" THEN selected
        ELSE Return(BooleanIndex(selected.value,
                        [i \in 1..Len(dframe.rows) |->
                            dframe.rows[i]["prob_type"] # TestSentinel]))

\* dframe[name] = pd.to_datetime(dframe[name])
CoerceDates(dframe, name) ==
    LET converted == to_datetime(Column(dframe, name))
    IN  IF converted.exc # "" THEN converted
        ELSE Return(SetColumn(dframe, name, converted.value))

\* dframe['duration'] = dframe['date_completed'] - dframe.index
AddDuration(dframe) ==
    SetColumn(dframe, "duration",
              SeriesSubIndex(Column(dframe, "date_completed"), dframe.index))

\* the two fiscal-year columns, from the index and from date_completed
AddFiscalYears(dframe) ==
    LET requested == get_fiscalyear([kind |-> "DatetimeIndex", items |-> dframe.index],
                                    DefaultFiscalYearStart).value
        withreq   == SetColumn(dframe, "fiscal_year_requested", requested)
        completed == get_fiscalyear([kind |-> "Series",
                                     items |-> Column(withreq, "date_completed")],
                                    DefaultFiscalYearStart).value
    IN  SetColumn(withreq, "fiscal_year_completed", completed)

\* faulty variant: a failed clean hands back the caller's own table
AfterFailureOriginal(rebound, frame) ==
    [failed |-> TRUE, rebound |-> FALSE, frame |-> frame]

\* except Exception: status = 'Fail', and dframe is returned as it stands
AfterFailure(rebound, frame) ==
    [failed |-> TRUE, rebound |-> rebound, frame |-> frame]

\* The try block up to the sort: the statement that raises ends it, and the
\* local name dframe keeps the object the last completed statement left.
\* rebound: whether dframe was rebound to the new, filtered frame.
CleanTry(dframe) ==
    LET filtered == FilterRows(dframe)
    IN  IF filtered.exc # ""
        THEN AfterFailure(FALSE, dframe)
        ELSE
    LET completed == CoerceDates(filtered.value, "date_completed")
    IN  IF completed.exc # ""
        THEN AfterFailure(TRUE, filtered.value)
        ELSE
    LET requested == CoerceDates(completed.value, "date_requested")
    IN  IF requested.exc # ""
        THEN AfterFailure(TRUE, completed.value)
        ELSE [failed |-> FALSE, rebound |-> TRUE,
              frame |-> AddFiscalYears(AddDuration(
                            set_index(requested.value, "date_requested")))]

\* faulty variant: the filtered frame written over the caller's table
NewRefInPlace == args.dframe

\* the reference a newly created object gets
NewRef == Cardinality(DOMAIN heap) + 1

CallCleanData ==
    /\ op = "clean_data"
    /\ pc = "call"
    /\ IF heap[args.dframe].type = "DataFrame"
       THEN LET try == CleanTry(heap[args.dframe])
            IN  /\ \E p \in SortOrders(IF try.failed THEN <<>> ELSE try.frame.index) :
                     heap' = IF ~try.rebound THEN heap
                             ELSE IF try.failed THEN (NewRef :> try.frame) @@ heap
                             ELSE (NewRef :> sort_index(try.frame, p)) @@ heap
                /\ status' = IF try.failed THEN "Fail" ELSE "Pass"
                /\ ret' = [kind |-> "ref",
                           ref |-> IF try.rebound THEN NewRef ELSE args.dframe]
                /\ stdout' = stdout
       ELSE /\ stdout' = Append(stdout,
                 <<"Function requires pandas dataframe object but received type: ",
                   heap[args.dframe].type, ".">>)
            /\ ret' = [kind |-> "ref", ref |-> args.dframe]
            /\ UNCHANGED <<heap, status>>
    /\ raised' = ""
    /\ pc' = "done"
    /\ UNCHANGED <<op, args>>

(***************************************************************************)
(* Inputs of clean_data.                                                   *)
(***************************************************************************)
\* texts of the requested dates: two moments and one that names no date
RequestedTexts == {<<2021, 6, 30, 12>>, <<2021, 7, 1, 0>>, <<2021, 13, 1, 0>>}

\* texts of the completed dates: open (null), before the request, after it,
\* and one that names no date
CompletedTexts == {<<>>, <<2021, 6, 30, 0>>, <<2021, 7, 2, 6>>, <<2021, 2, 30, 0>>}

RawCells ==
    [date_requested : RequestedTexts, date_completed : CompletedTexts,
     prob_type : {TestSentinel, "HVAC"}]

\* the raw row at position i: wo_id names the row
RawRow(i, cells, names) ==
    [c \in names |->
        CASE c = "wo_id" -> i
          [] c = "date_requested" -> cells.date_requested
          [] c = "date_completed" -> cells.date_completed
          [] c = "prob_type" -> cells.prob_type
          [] c = "bl_id" -> "B1"
          [] OTHER -> "-"]

\* the raw table may carry more columns than the target ones, or lack one
RawNames ==
    {target_columns, target_columns \cup {"description"}, target_columns \ {"time_end"}}

RawFrame(names, cells) ==
    DataFrame(names, [i \in 1..Len(cells) |-> RawRow(i, cells[i], names)])

\* a raw table of up to MaxRows rows, or something that is no table
InitCleanData ==
    /\ op = "clean_data"
    /\ pc = "call"
    /\ \/ \E names \in RawNames : \E n \in 0..MaxRows : \E cells \in [1..n -> RawCells] :
             heap = (1 :> RawFrame(names, cells))
       \/ heap = (1 :> [type |-> "dict"])
    /\ args = [dframe |-> 1]
    /\ ret = PyNone
    /\ raised = ""
    /\ status = ""
    /\ stdout = <<>>

(***************************************************************************)
(* Floats, as exact rationals in lowest terms.                             *)
(***************************************************************************)
RECURSIVE GCD(_, _)
GCD(a, b) == IF b = 0 THEN a ELSE GCD(b, a % b)

Abs(x) == IF x < 0 THEN -x ELSE x

\* n / d, for d > 0
Rat(n, d) ==
    LET g == GCD(Abs(n), d) IN [num |-> n \div g, den |-> d \div g]

RatAdd(a, b) == Rat(a.num * b.den + b.num * a.den, a.den * b.den)

RatDivInt(a, n) == Rat(a.num, a.den * n)

RatMulInt(a, n) == Rat(a.num * n, a.den)

\* integer <= float
IntLERat(i, a) == i * a.den <= a.num

RECURSIVE SumInts(_)
SumInts(s) == IF s = <<>> THEN 0 ELSE s[1] + SumInts(Tail(s))

RECURSIVE SumRats(_)
SumRats(s) == IF s = <<>> THEN Rat(0, 1) ELSE RatAdd(s[1], SumRats(Tail(s)))

(***************************************************************************)
(* ontime                                                                  *)
(***************************************************************************)
\* faulty variant: a single null entry let through
null_nonexistent_off_by_one(series) ==
    ~(Cardinality({i \in 1..Len(series) : series[i].null}) > 1)

\* series.isnull().sum() > 0 is False
null_nonexistent(series) ==
    ~(Cardinality({i \in 1..Len(series) : series[i].null}) > 0)

\* faulty variant: the whole days of a duration, rounded toward zero
TimedeltaDaysTruncated(duration) ==
    IF duration.value >= 0 THEN duration.value \div HoursPerDay
    ELSE -((-duration.value) \div HoursPerDay)

\* Timedelta.days: the whole days of a duration, rounded down
TimedeltaDays(duration) == duration.value \div HoursPerDay

\* the positions, in order, of the rows of one group
GroupRows(frame, by, key) ==
    Kept([i \in 1..Len(frame.rows) |-> frame.rows[i][by] = key], 1)

\* the cells of one column in one group
GroupCells(frame, by, key, name) ==
    LET rows == GroupRows(frame, by, key)
    IN  [k \in 1..Len(rows) |-> frame.rows[rows[k]][name]]

GroupKeys(frame, by) == {frame.rows[i][by] : i \in 1..Len(frame.rows)}

\* mean of a group of integers
MeanInts(cells) == Rat(SumInts(cells), Len(cells))

\* mean of a group of floats
MeanRats(cells) == RatDivInt(SumRats(cells), Len(cells))

\* lines 338-340: the three derived columns, attached to the frame
DaysInteger(frame, duration_column) ==
    SetColumn(frame, "days_integer",
              [i \in 1..Len(frame.rows) |-> TimedeltaDays(frame.rows[i][duration_column])])

AverageDuration(frame, problemtype_column) ==
    SetColumn(frame, "average_duration",
              [i \in 1..Len(frame.rows) |->
                  MeanInts(GroupCells(frame, problemtype_column,
                                      frame.rows[i][problemtype_column], "days_integer"))])

\* faulty variant: an order exactly at the mean counted late
OntimeFlagStrict(frame) ==
    SetColumn(frame, "ontime",
              [i \in 1..Len(frame.rows) |->
                  IF ~IntLERat(frame.rows[i]["days_integer"],
                               frame.rows[i]["average_duration"])
                     \/ frame.rows[i]["days_integer"] * frame.rows[i]["average_duration"].den
                            = frame.rows[i]["average_duration"].num
                  THEN 0 ELSE 1])

OntimeFlag(frame) ==
    SetColumn(frame, "ontime",
              [i \in 1..Len(frame.rows) |->
                  IF IntLERat(frame.rows[i]["days_integer"],
                              frame.rows[i]["average_duration"]) THEN 1 ELSE 0])

\* lines 342-347: the three per-type aggregates, each keyed by problem type
OntimeResult(frame, problemtype_column) ==
    LET keys == GroupKeys(frame, problemtype_column)
        avg_duration_bytype ==
            [k \in keys |-> MeanRats(GroupCells(frame, problemtype_column, k,
                                                "average_duration"))]
        number_ontime_bytype ==
            [k \in keys |-> SumInts(GroupCells(frame, problemtype_column, k, "ontime"))]
        total_volume_bytype ==
            [k \in keys |-> Len(GroupCells(frame, problemtype_column, k, "ontime"))]
        percentage_ontime ==
            [k \in keys |-> RatMulInt(Rat(number_ontime_bytype[k],
                                          total_volume_bytype[k]), 100)]
    IN  <<total_volume_bytype, avg_duration_bytype, percentage_ontime>>

NullMessage(duration_column) ==
    <<"Check \"", duration_column, "\" column, ensure there are no null values.">>

CallOntime ==
    /\ op = "ontime"
    /\ pc = "call"
    /\ LET dframe == heap[args.dframe]
           pcol   == args.problemtype_column
           dcol   == args.duration_column
       IN  IF dcol \notin dframe.names
           THEN \* dframe[duration_column] of line 336 is outside the try block
                /\ raised' = "KeyError"
                /\ ret' = PyNone
                /\ UNCHANGED <<heap, stdout>>
           ELSE IF ~null_nonexistent(Column(dframe, dcol))
           THEN /\ ret' = [kind |-> "str", text |-> NullMessage(dcol)]
                /\ raised' = ""
                /\ UNCHANGED <<heap, stdout>>
           ELSE IF pcol \notin dframe.names
           THEN \* groupby raises KeyError after days_integer was attached; the
                \* except clause prints it and the function returns None
                /\ heap' = [heap EXCEPT ![args.dframe] = DaysInteger(dframe, dcol)]
                /\ stdout' = Append(stdout, <<pcol>>)
                /\ ret' = PyNone
                /\ raised' = ""
           ELSE LET derived == OntimeFlag(AverageDuration(DaysInteger(dframe, dcol), pcol))
                IN  /\ heap' = [heap EXCEPT ![args.dframe] = derived]
                    /\ ret' = [kind |-> "tuple", items |-> OntimeResult(derived, pcol)]
                    /\ raised' = ""
                    /\ stdout' = stdout
    /\ pc' = "done"
    /\ UNCHANGED <<op, args, status>>

(***************************************************************************)
(* Inputs of ontime.                                                       *)
(***************************************************************************)
\* durations in hours: open (null), negative, whole days and not
Durations == {NaT, Val(-36), Val(24), Val(36), Val(60)}

ProblemTypes == {"BOILER", "HVAC"}

OrderCells == [prob_type : ProblemTypes, duration : Durations]

OrderRow(i, cells, dcol) ==
    [c \in {"wo_id", "prob_type", dcol} |->
        CASE c = "wo_id" -> i
          [] c = "prob_type" -> cells.prob_type
          [] OTHER -> cells.duration]

OrderFrame(dcol, cells) ==
    DataFrame({"wo_id", "prob_type", dcol},
              [i \in 1..Len(cells) |-> OrderRow(i, cells[i], dcol)])

InitOntime ==
    /\ op = "ontime"
    /\ pc = "call"
    /\ \E dcol \in {"duration", "drtn"}, pcol \in {"prob_type", "ptypes"} :
          \* the table's duration column is 'duration' or the one asked for
          \E named \in {"duration", dcol} :
             \E n \in 0..MaxOrders : \E cells \in [1..n -> OrderCells] :
                /\ heap = (1 :> OrderFrame(named, cells))
                /\ args = [dframe |-> 1, problemtype_column |-> pcol,
                           duration_column |-> dcol]
    /\ ret = PyNone
    /\ raised = ""
    /\ status = ""
    /\ stdout = <<>>

(***************************************************************************)
(* make_map_dframe                                                         *)
(***************************************************************************)
geo_columns == <<"bl_id", "name", "addr", "site_id", "latitude", "longitude">>

\* lines 500-501: the sheet's data rows under the six fixed column names
ReadExcel(sheet) ==
    DataFrame({geo_columns[k] : k \in 1..Len(geo_columns)},
              [i \in 1..Len(sheet) |->
                 [c \in {geo_columns[k] : k \in 1..Len(geo_columns)} |->
                    sheet[i][CHOOSE k \in 1..Len(geo_columns) : geo_columns[k] = c]]])

\* df.loc[df['bl_id'] == bld][name].values[0]
FirstMatch(df, bld, name) == df.rows[GroupRows(df, "bl_id", bld)[1]][name]

\* lines 502-506
GeoDict(df) ==
    [bld \in GroupKeys(df, "bl_id") |->
        [latitude  |-> FirstMatch(df, bld, "latitude"),
         longitude |-> FirstMatch(df, bld, "longitude"),
         bld_name  |-> FirstMatch(df, bld, "name")]]

\* faulty variant: an unknown key mapped to a null, as Series.map would
LookupNullForUnknown(series, geo_dict, field) ==
    Return([i \in 1..Len(series) |->
               IF series[i] \in DOMAIN geo_dict THEN geo_dict[series[i]][field] ELSE "NaN"])

\* series.apply(lambda x: geo_dict[x][field]): KeyError for a key not in the dict
Lookup(series, geo_dict, field) ==
    IF \E i \in 1..Len(series) : series[i] \notin DOMAIN geo_dict
    THEN Raise("KeyError")
    ELSE Return([i \in 1..Len(series) |-> geo_dict[series[i]][field]])

\* lines 508-510: the frame after each assignment that completed, and the
\* exception of the one that did not
MapTry(dframe, geo_dict) ==
    LET latitude == Lookup(Column(dframe, "bl_id"), geo_dict, "latitude")
    IN  IF latitude.exc # "" THEN [exc |-> latitude.exc, frame |-> dframe] ELSE
    LET f1 == SetColumn(dframe, "latitude", latitude.value)
        longitude == Lookup(Column(f1, "bl_id"), geo_dict, "longitude")
    IN  IF longitude.exc # "" THEN [exc |-> longitude.exc, frame |-> f1] ELSE
    LET f2 == SetColumn(f1, "longitude", longitude.value)
        bld_name == Lookup(Column(f2, "bl_id"), geo_dict, "bld_name")
    IN  IF bld_name.exc # "" THEN [exc |-> bld_name.exc, frame |-> f2]
        ELSE [exc |-> "", frame |-> SetColumn(f2, "bld_name", bld_name.value)]

CallMakeMapDframe ==
    /\ op = "make_map_dframe"
    /\ pc = "call"
    /\ LET try == MapTry(heap[args.dframe], GeoDict(ReadExcel(args.excelfile)))
       IN  /\ heap' = [heap EXCEPT ![args.dframe] = try.frame]
           /\ raised' = try.exc
           /\ ret' = IF try.exc = "" THEN [kind |-> "ref", ref |-> args.dframe] ELSE PyNone
    /\ pc' = "done"
    /\ UNCHANGED <<op, args, status, stdout>>

(***************************************************************************)
(* Inputs of make_map_dframe.                                              *)
(***************************************************************************)
\* rows of the reference sheet: B1 is listed under two names and places
SheetRows ==
    {<<"B1", "Annex", "1 Main St", "S1", 39, -76>>,
     <<"B1", "Hall", "2 Main St", "S1", 40, -77>>,
     <<"B2", "Hall", "2 Main St", "S2", 40, -77>>,
     <<"B2", "Depot", "3 Main St", "S2", 39, -77>>}

\* building ids of work orders: B3 is in no sheet
OrderBuildings == {"B1", "B2", "B3"}

MapRow(i, bld) == [wo_id |-> i, bl_id |-> bld]

MapFrame(blds) ==
    DataFrame({"wo_id", "bl_id"}, [i \in 1..Len(blds) |-> MapRow(i, blds[i])])

InitMakeMapDframe ==
    /\ op = "make_map_dframe"
    /\ pc = "call"
    /\ \E n \in 0..MaxMapRows : \E blds \in [1..n -> OrderBuildings] :
          heap = (1 :> MapFrame(blds))
    /\ \E n \in 0..MaxBuildings : \E sheet \in [1..n -> SheetRows] :
          args = [dframe |-> 1, excelfile |-> sheet]
    /\ ret = PyNone
    /\ raised = ""
    /\ status = ""
    /\ stdout = <<>>

Init == InitFiscalYear \/ InitCleanData \/ InitOntime \/ InitMakeMapDframe

Next == CallGetFiscalYear \/ CallCleanData \/ CallOntime \/ CallMakeMapDframe

Spec == Init /\ [][Next]_vars

(***************************************************************************)
(* Vocabulary of the properties.                                           *)
(***************************************************************************)
Done(operation) == op = operation /\ pc = "done"

\* the table the caller passed in, and the table the call returned
Passed == heap[args.dframe]

Returned == heap[ret.ref]

\* the moment a date text names, in hours
Moment(text) == days_from_civil(text[1], text[2], text[3]) * HoursPerDay + text[4]

\* the row of the passed table that carries the given wo_id
PassedRow(wo_id) == Passed.rows[CHOOSE i \in 1..Len(Passed.rows) : Passed.rows[i]["wo_id"] = wo_id]

SentinelRows == {i \in 1..Len(Passed.rows) : Passed.rows[i]["prob_type"] = TestSentinel}

(***************************************************************************)
(* C1.  get_fiscalyear on a sequence of timestamps and a start month in    *)
(* 1..12 returns a list of the same length whose i-th element is the year  *)
(* of the i-th timestamp plus one when its month is at least the start     *)
(* month, and the year otherwise; with start 7, 2021-08-15 gives 2022 and  *)
(* 2021-05-01 gives 2021.                                                  *)
(***************************************************************************)
C1_FiscalYearRule ==
    (Done("get_fiscalyear") /\ args.column.kind = "Series") =>
        /\ raised = ""
        /\ ret.kind = "list"
        /\ Len(ret.items) = Len(args.column.items)
        /\ \A i \in 1..Len(ret.items) :
              LET date == civil_from_days(args.column.items[i].value \div HoursPerDay)
              IN  /\ ret.items[i] = Val(IF date.month >= args.fiscalyear_start
                                        THEN date.year + 1 ELSE date.year)
                  /\ (args.fiscalyear_start = 7
                        /\ args.column.items[i].value = Moment(<<2021, 8, 15, 0>>))
                     => ret.items[i].value = 2022
                  /\ (args.fiscalyear_start = 7
                        /\ args.column.items[i].value = Moment(<<2021, 5, 1, 0>>))
                     => ret.items[i].value = 2021

\* a column of the start month itself and the month before it, start 7
C1_Witness ==
    /\ Done("get_fiscalyear")
    /\ args.column.kind = "Series"
    /\ args.fiscalyear_start = 7
    /\ args.column.items = <<Val(Moment(<<2021, 7, 15, 0>>)), Val(Moment(<<2021, 6, 15, 0>>))>>
    /\ ret.kind = "list"
    /\ ret.items = <<Val(2022), Val(2021)>>

(***************************************************************************)
(* C2.  clean_data on a table that has all target columns returns exactly  *)
(* the rows whose prob_type is not 'TEST(DO NOT USE)': every sentinel row  *)
(* is gone, no other row is removed or added, and the row count is the     *)
(* input's minus the number of sentinel rows.                              *)
(***************************************************************************)
C2_SentinelRowsRemoved ==
    (Done("clean_data") /\ Passed.type = "DataFrame" /\ target_columns \subseteq Passed.names) =>
        /\ ret.kind = "ref"
        /\ Len(Returned.rows) = Len(Passed.rows) - Cardinality(SentinelRows)
        /\ \A k \in 1..Len(Returned.rows) :
              /\ Returned.rows[k]["prob_type"] # TestSentinel
              /\ \E i \in 1..Len(Passed.rows) :
                    /\ Passed.rows[i]["wo_id"] = Returned.rows[k]["wo_id"]
                    /\ Passed.rows[i]["prob_type"] = Returned.rows[k]["prob_type"]
        /\ \A i \in 1..Len(Passed.rows) :
              (i \notin SentinelRows) =>
                 Cardinality({k \in 1..Len(Returned.rows) :
                                 Returned.rows[k]["wo_id"] = Passed.rows[i]["wo_id"]}) = 1

\* a sentinel row and another row go in, the other row alone comes out
C2_Witness ==
    /\ Done("clean_data")
    /\ Passed.type = "DataFrame"
    /\ target_columns \subseteq Passed.names
    /\ Len(Passed.rows) = 2
    /\ SentinelRows = {1}
    /\ Len(Returned.rows) = 1
    /\ Returned.rows[1]["wo_id"] = 2
    /\ status = "Pass"

(***************************************************************************)
(* C5.  Every row of the table clean_data returns carries, as duration,    *)
(* its own date_completed minus its own date_requested when date_completed *)
(* is not null, and null when it is; the pairing holds after the final     *)
(* sort by requested date, also when rows share a requested timestamp.     *)
(* (A clean that fails returns a table with no duration column.)           *)
(***************************************************************************)
C5_DurationPairsRowByRow ==
    (Done("clean_data") /\ Passed.type = "DataFrame" /\ "duration" \in Returned.names) =>
        /\ status = "Pass"
        /\ \A k \in 1..Len(Returned.rows) :
              LET raw == PassedRow(Returned.rows[k]["wo_id"])
              IN  /\ Returned.index[k] = Val(Moment(raw["date_requested"]))
                  /\ Returned.rows[k]["duration"] =
                        IF raw["date_completed"] = <<>> THEN NaT
                        ELSE Val(Moment(raw["date_completed"]) - Moment(raw["date_requested"]))
        /\ \A k \in 1..(Len(Returned.rows) - 1) :
              Returned.index[k].value <= Returned.index[k + 1].value

\* two rows requested at the same moment, one closed and one open, returned
\* in the other order
C5_Witness ==
    /\ Done("clean_data")
    /\ Passed.type = "DataFrame"
    /\ "duration" \in Returned.names
    /\ Len(Returned.rows) = 2
    /\ Returned.index[1] = Returned.index[2]
    /\ Returned.rows[1]["wo_id"] = 2
    /\ Returned.rows[1]["duration"] = Val(30)
    /\ Returned.rows[2]["duration"] = NaT

(***************************************************************************)
(* C8.  get_fiscalyear handles a single timestamp as it handles a column   *)
(* of one.  As claimed: called with one bare timestamp it does not fail.   *)
(***************************************************************************)
C8_AsClaimed_SingleTimestampHandled ==
    (Done("get_fiscalyear") /\ args.column.kind = "Timestamp") => raised = ""

(***************************************************************************)
(* C8, amended.  get_fiscalyear takes a sequence: a column of one          *)
(* timestamp gives the list of its one fiscal year, and a bare timestamp,  *)
(* which cannot be iterated, raises TypeError and gives no result.         *)
(***************************************************************************)
C8_SingleTimestampRaises ==
    Done("get_fiscalyear") =>
        /\ (args.column.kind = "Timestamp") => (raised = "TypeError" /\ ret = PyNone)
        /\ (args.column.kind = "Series" /\ Len(args.column.items) = 1) =>
              /\ raised = ""
              /\ ret.kind = "list"
              /\ LET date == civil_from_days(args.column.items[1].value \div HoursPerDay)
                 IN  ret.items = <<Val(IF date.month >= args.fiscalyear_start
                                       THEN date.year + 1 ELSE date.year)>>

\* the bare timestamp 2021-08-15 handed over with start month 7
C8_Witness ==
    /\ Done("get_fiscalyear")
    /\ args.column.kind = "Timestamp"
    /\ args.column.items[1].value = Moment(<<2021, 8, 15, 0>>)
    /\ args.fiscalyear_start = 7
    /\ raised = "TypeError"

(***************************************************************************)
(* Vocabulary of the on-time properties: the rows of one problem type in   *)
(* the table passed to ontime, and their durations in hours.               *)
(***************************************************************************)
TypeRows(k) == {i \in 1..Len(Passed.rows) : Passed.rows[i]["prob_type"] = k}

Hours(i) == Passed.rows[i][args.duration_column].value

RECURSIVE SumOver(_, _)
SumOver(F(_), S) ==
    IF S = {} THEN 0 ELSE LET x == CHOOSE x \in S : TRUE IN F(x) + SumOver(F, S \ {x})

\* the float a equals the fraction n / d
RatIs(a, n, d) == a.num * d = n * a.den

FloorDays(i) == Hours(i) \div HoursPerDay

(***************************************************************************)
(* C3.  For a table with no null duration and every problem type present,  *)
(* the count ontime returns is the number of rows of the type.  As         *)
(* claimed: the percent on time is 100 times the share of the type's rows  *)
(* whose duration is at most the mean duration of the type, for any mix of *)
(* durations, negative ones and ones that are not whole days included.     *)
(***************************************************************************)
C3_AsClaimed_PercentAgainstMeanDuration ==
    (Done("ontime") /\ ret.kind = "tuple") =>
        \A k \in DOMAIN ret.items[3] :
            LET n     == Cardinality(TypeRows(k))
                total == SumOver(Hours, TypeRows(k))
                timely == {i \in TypeRows(k) : Hours(i) * n <= total}
            IN  /\ ret.items[1][k] = n
                /\ RatIs(ret.items[3][k], 100 * Cardinality(timely), n)

(***************************************************************************)
(* C3, amended.  The count is the number of rows of the type, and the      *)
(* percent on time is 100 times the share of the type's rows whose         *)
(* duration in whole days (rounded down) is at most the mean of the type's *)
(* durations in whole days; it is the share against the mean duration      *)
(* when every duration is a whole number of days.                          *)
(***************************************************************************)
C3_PercentAgainstMeanOfWholeDays ==
    (Done("ontime") /\ ret.kind = "tuple") =>
        /\ DOMAIN ret.items[1] = {Passed.rows[i]["prob_type"] : i \in 1..Len(Passed.rows)}
        /\ DOMAIN ret.items[3] = DOMAIN ret.items[1]
        /\ \A k \in DOMAIN ret.items[3] :
              LET n     == Cardinality(TypeRows(k))
                  total == SumOver(FloorDays, TypeRows(k))
                  timely == {i \in TypeRows(k) : FloorDays(i) * n <= total}
              IN  /\ ret.items[1][k] = n
                  /\ RatIs(ret.items[3][k], 100 * Cardinality(timely), n)

\* three orders of one type taking 36, 24 and 24 hours: all three on time,
\* where two of three are at most the mean duration
C3_Witness ==
    /\ Done("ontime")
    /\ ret.kind = "tuple"
    /\ Len(Passed.rows) = 3
    /\ TypeRows("HVAC") = {1, 2, 3}
    /\ Hours(1) = 36 /\ Hours(2) = 24 /\ Hours(3) = 24
    /\ ret.items[1]["HVAC"] = 3
    /\ ret.items[3]["HVAC"] = Rat(100, 1)

(***************************************************************************)
(* C9.  As claimed: the mean duration ontime returns for a problem type is *)
(* the mean of the type's durations in days, truncated toward zero to a    *)
(* whole number of days.                                                   *)
(***************************************************************************)
C9_AsClaimed_MeanTruncatedToWholeDays ==
    (Done("ontime") /\ ret.kind = "tuple") =>
        \A k \in DOMAIN ret.items[2] :
            LET n     == Cardinality(TypeRows(k))
                total == SumOver(Hours, TypeRows(k))
                whole == IF total >= 0 THEN total \div (n * HoursPerDay)
                         ELSE -((-total) \div (n * HoursPerDay))
            IN  ret.items[2][k] = Rat(whole, 1)

(***************************************************************************)
(* C9, amended.  The mean duration ontime returns for a problem type is    *)
(* the mean, not truncated, of the type's durations each taken in whole    *)
(* days rounded down (toward minus infinity); an order is marked on time   *)
(* when its own whole days are at most that mean.                          *)
(***************************************************************************)
C9_MeanOfWholeDaysNotTruncated ==
    (Done("ontime") /\ ret.kind = "tuple") =>
        /\ DOMAIN ret.items[2] = {Passed.rows[i]["prob_type"] : i \in 1..Len(Passed.rows)}
        /\ \A k \in DOMAIN ret.items[2] :
              RatIs(ret.items[2][k], SumOver(FloorDays, TypeRows(k)), Cardinality(TypeRows(k)))
        /\ \A i \in 1..Len(Passed.rows) :
              LET k == Passed.rows[i]["prob_type"]
              IN  Passed.rows[i]["ontime"] =
                     IF FloorDays(i) * Cardinality(TypeRows(k)) <= SumOver(FloorDays, TypeRows(k))
                     THEN 1 ELSE 0

\* orders of -36 and 24 hours: -2 and 1 whole days, mean -1/2
C9_Witness ==
    /\ Done("ontime")
    /\ ret.kind = "tuple"
    /\ Len(Passed.rows) = 2
    /\ TypeRows("BOILER") = {1, 2}
    /\ Hours(1) = -36 /\ Hours(2) = 24
    /\ ret.items[2]["BOILER"] = [num |-> -1, den |-> 2]
    /\ Passed.rows[1]["ontime"] = 1 /\ Passed.rows[2]["ontime"] = 0

(***************************************************************************)
(* C7.  When the duration column holds a null entry, ontime returns the    *)
(* text 'Check "<duration_column>" column, ensure there are no null        *)
(* values.', never a result tuple, and attaches no derived column.         *)
(***************************************************************************)
C7_NullDurationGivesMessage ==
    (Done("ontime") /\ args.duration_column \in Passed.names
        /\ \E i \in 1..Len(Passed.rows) : Passed.rows[i][args.duration_column].null) =>
        /\ ret.kind = "str"
        /\ ret.text = <<"Check \"", args.duration_column,
                        "\" column, ensure there are no null values.">>
        /\ Passed.names \cap {"days_integer", "average_duration", "ontime"} = {}
        /\ Passed.names = {"wo_id", "prob_type", args.duration_column}
        /\ raised = ""
        /\ stdout = <<>>

\* two orders, the 'drtn' of one of them null
C7_Witness ==
    /\ Done("ontime")
    /\ args.duration_column = "drtn"
    /\ "drtn" \in Passed.names
    /\ Len(Passed.rows) = 2
    /\ Passed.rows[1]["drtn"] = Val(24)
    /\ Passed.rows[2]["drtn"] = NaT
    /\ ret.kind = "str"

(***************************************************************************)
(* C4.  make_map_dframe either returns a table in which every row carries  *)
(* the latitude, longitude and name the reference sheet lists for the      *)
(* row's bl_id, or, when some row's bl_id is in no row of the sheet, ends  *)
(* in an error and returns nothing: no row with an unknown bl_id ever      *)
(* comes back with a null or made-up coordinate.                           *)
(***************************************************************************)
C4_GeoJoinMatchesOrRaises ==
    Done("make_map_dframe") =>
        LET sheet   == args.excelfile
            listed  == {sheet[j][1] : j \in 1..Len(sheet)}
            unknown == {i \in 1..Len(Passed.rows) : Passed.rows[i]["bl_id"] \notin listed}
        IN  IF unknown # {}
            THEN raised = "KeyError" /\ ret = PyNone
            ELSE /\ raised = ""
                 /\ ret.kind = "ref"
                 /\ Len(Returned.rows) = Len(Passed.rows)
                 /\ \A i \in 1..Len(Returned.rows) :
                       \E j \in 1..Len(sheet) :
                          /\ sheet[j][1] = Returned.rows[i]["bl_id"]
                          /\ Returned.rows[i]["bld_name"] = sheet[j][2]
                          /\ Returned.rows[i]["latitude"] = sheet[j][5]
                          /\ Returned.rows[i]["longitude"] = sheet[j][6]

\* orders in B2 and B1 joined against a sheet that lists B1 then B2
C4_Witness ==
    /\ Done("make_map_dframe")
    /\ raised = ""
    /\ ret.kind = "ref"
    /\ Len(args.excelfile) = 2
    /\ args.excelfile[1][1] = "B1"
    /\ args.excelfile[2][1] = "B2"
    /\ Len(Returned.rows) = 2
    /\ Returned.rows[1]["bl_id"] = "B2"
    /\ Returned.rows[1]["bld_name"] = "Depot"
    /\ Returned.rows[1]["latitude"] = 39
    /\ Returned.rows[2]["bl_id"] = "B1"
    /\ Returned.rows[2]["longitude"] = -76

(***************************************************************************)
(* C6.  As claimed: clean_data, ontime and make_map_dframe each leave the  *)
(* table the caller passed in with the same columns, rows, row order and   *)
(* values as before the call, whether the call succeeds or fails.          *)
(***************************************************************************)
C6_AsClaimed_PassedTableUnchanged ==
    [][(pc = "call" /\ pc' = "done" /\ op # "get_fiscalyear")
          => heap'[args.dframe] = heap[args.dframe]]_vars

\* the frame without the named columns
WithoutColumns(frame, dropped) ==
    [frame EXCEPT !.names = frame.names \ dropped,
                  !.rows = [i \in 1..Len(frame.rows) |->
                              [c \in frame.names \ dropped |-> frame.rows[i][c]]]]

(***************************************************************************)
(* C6, amended.  clean_data leaves the table the caller passed in as it    *)
(* was, in every case.  ontime and make_map_dframe leave its rows, row     *)
(* order, index and the values of the columns it had as they were, but     *)
(* attach their derived columns to it: ontime attaches days_integer,       *)
(* average_duration and ontime when it returns its tuple (days_integer     *)
(* alone when the grouping fails) and nothing when it returns the null     *)
(* message or raises; make_map_dframe attaches latitude, longitude and     *)
(* bld_name when it succeeds and nothing when the lookup raises.           *)
(***************************************************************************)
C6_OnlyCleanLeavesPassedTable ==
    [][(pc = "call" /\ pc' = "done" /\ op # "get_fiscalyear") =>
          LET before == heap[args.dframe]
              after  == heap'[args.dframe]
          IN  CASE op = "clean_data" -> after = before
                [] op = "ontime" ->
                     /\ after.names \ before.names =
                           IF ret'.kind = "tuple"
                           THEN {"days_integer", "average_duration", "ontime"}
                           ELSE IF ret'.kind = "str" \/ raised' # "" THEN {}
                           ELSE {"days_integer"}
                     /\ WithoutColumns(after, after.names \ before.names) = before
                [] op = "make_map_dframe" ->
                     /\ after.names \ before.names =
                           IF raised' = "" THEN {"latitude", "longitude", "bld_name"} ELSE {}
                     /\ WithoutColumns(after, after.names \ before.names) = before]_vars

\* ontime has returned its tuple and the passed table carries the three
\* derived columns
C6_Witness ==
    /\ Done("ontime")
    /\ ret.kind = "tuple"
    /\ Len(Passed.rows) = 2
    /\ {"days_integer", "average_duration", "ontime"} \subseteq Passed.names

(***************************************************************************)
(* C10.  clean_data on a table never lets a failure of a cleaning step     *)
(* out: the call ends without an exception and returns a table, and the    *)
(* Pass/Fail status is not part of what it returns.  As claimed: the table *)
(* a failed clean returns is the original input table.                     *)
(***************************************************************************)
C10_AsClaimed_FailureReturnsInputTable ==
    (Done("clean_data") /\ Passed.type = "DataFrame" /\ status = "Fail") =>
        /\ raised = ""
        /\ ret = [kind |-> "ref", ref |-> args.dframe]

(***************************************************************************)
(* C10, amended.  clean_data on a table never lets a failure of a cleaning *)
(* step out: the call ends without an exception and returns a reference to *)
(* a table and nothing else, so the outcome of the call does not tell a    *)
(* failed clean from a successful one.  A failed clean returns the input   *)
(* table itself only when the column selection failed (a target column is  *)
(* missing); when a later step failed it returns the new table of the      *)
(* target columns and the non-sentinel rows, still under the input's row   *)
(* labels and without the derived columns.                                 *)
(***************************************************************************)
C10_FailureSwallowed ==
    (Done("clean_data") /\ Passed.type = "DataFrame") =>
        /\ raised = ""
        /\ DOMAIN ret = {"kind", "ref"}
        /\ ret.kind = "ref"
        /\ Returned.type = "DataFrame"
        /\ status \in {"Pass", "Fail"}
        /\ (status = "Fail") =>
              IF target_columns \subseteq Passed.names
              THEN /\ ret.ref # args.dframe
                   /\ Returned.names = target_columns
                   /\ Returned.index_name = ""
                   /\ Len(Returned.rows) = Len(Passed.rows) - Cardinality(SentinelRows)
                   /\ \A k \in 1..Len(Returned.rows) :
                         /\ Passed.rows[Returned.index[k] + 1]["wo_id"] = Returned.rows[k]["wo_id"]
                         /\ Passed.rows[Returned.index[k] + 1]["date_requested"]
                               = Returned.rows[k]["date_requested"]
              ELSE ret.ref = args.dframe
        /\ (status = "Pass") =>
              /\ ret.ref # args.dframe
              /\ Returned.index_name = "date_requested"

\* a sentinel row and a row whose requested date names no date: the clean
\* fails after the filter and returns the new one-row table
C10_Witness ==
    /\ Done("clean_data")
    /\ Passed.type = "DataFrame"
    /\ status = "Fail"
    /\ Len(Passed.rows) = 2
    /\ SentinelRows = {1}
    /\ ret.ref # args.dframe
    /\ Len(Returned.rows) = 1
    /\ Returned.rows[1]["date_requested"] = <<2021, 13, 1, 0>>
    /\ Returned.rows[1]["date_completed"] = NaT

====
